---- MODULE Spec2Model ----
(***************************************************************************)
(* A model of fast_intersect_count.h: the AND-popcount kernels (scalar,    *)
(* SSE4.1, AVX2, AVX-512 Harley-Seal), the sparse positional kernel, the   *)
(* blocked all-pairs drivers, CPU feature detection and the two dispatch   *)
(* entry points intersect() and intersect_list().                          *)
(*                                                                         *)
(* A 64-bit word is the set of its set bit indices (a subset of 0..63); a  *)
(* SIMD register of L bits is the set of its set bit indices in 0..L-1.    *)
(* Memory (the bundle `vals`) is a function from word index to word.  A    *)
(* pointer into the bundle is a word index.  The build is the GCC >= 5 /   *)
(* clang one on x86-64 (LP64), where HAVE_SSE41, HAVE_AVX2 and HAVE_AVX512 *)
(* are all defined and the C (not C++) path of the cpuid cache is taken.   *)
(***************************************************************************)
EXTENDS Integers, Sequences, FiniteSets, TLC

(***************************************************************************)
(* Bounds of the model.                                                    *)
(***************************************************************************)
\* largest number of vectors in a bundle
MaxVectors == 5
\* largest block size handed directly to the blocked drivers
MaxBlockSize == 3
\* largest number of L-bit blocks handed to a Harley-Seal kernel
MaxCycles == 17
\* number of threads racing on the cpuid cache
MaxThreads == 3

(***************************************************************************)
(* Program constants.                                                      *)
(***************************************************************************)
FIC_DEFAULT_BLOCK == 256000
FIC_SSE_ALIGNMENT == 16
FIC_AVX2_ALIGNMENT == 32
FIC_AVX512_ALIGNMENT == 64
WordBits == 64

bit_POPCNT   == 2^23
bit_SSE41    == 2^19
bit_SSE42    == 2^20
bit_AVX2     == 2^5
bit_AVX512BW == 2^30
XSTATE_SSE   == 2^1
XSTATE_YMM   == 2^2
XSTATE_ZMM   == 7 * 2^5
osxsave_mask == 2^27

(***************************************************************************)
(* Bitwise operators of C on non-negative ints.                            *)
(***************************************************************************)
RECURSIVE BitAnd(_, _)
BitAnd(a, b) ==
    IF a = 0 \/ b = 0 THEN 0
    ELSE (a % 2) * (b % 2) + 2 * BitAnd(a \div 2, b \div 2)

RECURSIVE BitOr(_, _)
BitOr(a, b) ==
    IF a = 0 THEN b
    ELSE IF b = 0 THEN a
    ELSE (IF a % 2 = 1 \/ b % 2 = 1 THEN 1 ELSE 0) + 2 * BitOr(a \div 2, b \div 2)

\* x reduced modulo 2^32, the conversion to uint32_t (x - (x div 2^32) * 2^32,
\* with 2^32 written as 2^16 * 2^16)
\* A uint32_t of 2^31 or more is held as the two's-complement reading of its
\* 32 bits (a negative number), on which addition is the same operation.
U32(x) == IF x < 0 THEN x ELSE x - ((x \div 65536) \div 65536) * 65536 * 65536

\* a <= b on two uint32_t
ULe(a, b) == IF (a < 0) = (b < 0) THEN a <= b ELSE b < 0

\* A uint32_t widened to 64 bits (a word offset used as an index of vals, or
\* a uint64_t initialised from it): four 16-bit digits, lowest first.
Wide(x) == <<x % 65536, (x \div 65536) % 65536, 0, 0>>

\* x + y on 64 bits
WideAdd(x, y) ==
    LET s1 == x[1] + y[1]
        s2 == x[2] + y[2] + (s1 \div 65536)
        s3 == x[3] + y[3] + (s2 \div 65536)
        s4 == x[4] + y[4] + (s3 \div 65536)
    IN  <<s1 % 65536, s2 % 65536, s3 % 65536, s4 % 65536>>

\* x * k on 64 bits, for a count k below 2^15
WideMul(x, k) ==
    LET t1 == x[1] * k
        t2 == x[2] * k + (t1 \div 65536)
        t3 == x[3] * k + (t2 \div 65536)
        t4 == x[4] * k + (t3 \div 65536)
    IN  <<t1 % 65536, t2 % 65536, t3 % 65536, t4 % 65536>>

\* x <= y on 64 bits
WideLe(x, y) ==
    \/ x = y
    \/ \E d \in 1..4 : x[d] < y[d] /\ \A e \in (d + 1)..4 : x[e] = y[e]

\* the conversion of 64 bits to uint32_t: the low 32 bits
Narrow(x) == IF x[2] >= 32768 THEN (x[2] - 65536) * 65536 + x[1] ELSE x[2] * 65536 + x[1]

\* a + b in uint32_t
Add32(a, b) == Narrow(WideAdd(Wide(a), Wide(b)))

\* k * n in uint32_t, for an index k below 2^15
Mul32(k, n) == Narrow(WideMul(Wide(n), k))

\* c[0] + ... + c[n-1]
RECURSIVE SumTo(_, _)
SumTo(c, n) == IF n = 0 THEN 0 ELSE c[n - 1] + SumTo(c, n - 1)

\* a detection that takes any enabled state component of a mask for the whole mask
get_cpuid_anystate(hw) ==
    LET f1 == IF BitAnd(hw.ecx1, bit_POPCNT) = bit_POPCNT THEN bit_POPCNT ELSE 0
        f2 == IF BitAnd(hw.ecx1, bit_SSE41) = bit_SSE41 THEN BitOr(f1, bit_SSE41) ELSE f1
        f3 == IF BitAnd(hw.ecx1, bit_SSE42) = bit_SSE42 THEN BitOr(f2, bit_SSE42) ELSE f2
        ymm_mask == BitOr(XSTATE_SSE, XSTATE_YMM)
        f4 == IF BitAnd(hw.ebx7, bit_AVX2) = bit_AVX2 THEN BitOr(f3, bit_AVX2) ELSE f3
        f5 == IF /\ BitAnd(hw.xcr0, XSTATE_ZMM) # 0
                 /\ BitAnd(hw.ebx7, bit_AVX512BW) = bit_AVX512BW
              THEN BitOr(f4, bit_AVX512BW) ELSE f4
    IN  IF BitAnd(hw.ecx1, osxsave_mask) # osxsave_mask THEN 0
        ELSE IF BitAnd(hw.xcr0, ymm_mask) # 0 THEN f5
        ELSE f3

(***************************************************************************)
(* get_cpuid: hw is what CPUID leaf 1 (ecx), CPUID leaf 7 (ebx) and XGETBV *)
(* report on this machine.                                                 *)
(***************************************************************************)
get_cpuid(hw) ==
    LET f1 == IF BitAnd(hw.ecx1, bit_POPCNT) = bit_POPCNT THEN bit_POPCNT ELSE 0
        f2 == IF BitAnd(hw.ecx1, bit_SSE41) = bit_SSE41 THEN BitOr(f1, bit_SSE41) ELSE f1
        f3 == IF BitAnd(hw.ecx1, bit_SSE42) = bit_SSE42 THEN BitOr(f2, bit_SSE42) ELSE f2
        ymm_mask == BitOr(XSTATE_SSE, XSTATE_YMM)
        zmm_mask == BitOr(BitOr(XSTATE_SSE, XSTATE_YMM), XSTATE_ZMM)
        f4 == IF BitAnd(hw.ebx7, bit_AVX2) = bit_AVX2 THEN BitOr(f3, bit_AVX2) ELSE f3
        f5 == IF /\ BitAnd(hw.xcr0, zmm_mask) = zmm_mask
                 /\ BitAnd(hw.ebx7, bit_AVX512BW) = bit_AVX512BW
              THEN BitOr(f4, bit_AVX512BW) ELSE f4
    IN  IF BitAnd(hw.ecx1, osxsave_mask) # osxsave_mask THEN 0
        ELSE IF BitAnd(hw.xcr0, ymm_mask) = ymm_mask THEN f5
        ELSE f3

(***************************************************************************)
(* Popcount primitives.                                                    *)
(***************************************************************************)
\* FIC_POPCOUNT / _mm_popcnt_u64 of one 64-bit word
FIC_POPCOUNT(w) == Cardinality(w)

\* the 64-bit sub-lane k of a register
Lane(v, k) == {p \in v : p \div WordBits = k}

\* FIC_POPCOUNT_SSE: the two 64-bit halves, popcounted and added
FIC_POPCOUNT_SSE(v) == Cardinality(Lane(v, 0)) + Cardinality(Lane(v, 1))

\* byte b of a register, as a number
ByteOf(v, b) ==
    (IF 8 * b \in v THEN 1 ELSE 0) + (IF 8 * b + 1 \in v THEN 2 ELSE 0)
    + (IF 8 * b + 2 \in v THEN 4 ELSE 0) + (IF 8 * b + 3 \in v THEN 8 ELSE 0)
    + (IF 8 * b + 4 \in v THEN 16 ELSE 0) + (IF 8 * b + 5 \in v THEN 32 ELSE 0)
    + (IF 8 * b + 6 \in v THEN 64 ELSE 0) + (IF 8 * b + 7 \in v THEN 128 ELSE 0)

\* the shuffle tables of popcnt256, indexed from 1
lookup1 == <<4, 5, 5, 6, 5, 6, 6, 7, 5, 6, 6, 7, 6, 7, 7, 8>>

lookup2 == <<4, 3, 3, 2, 3, 2, 2, 1, 3, 2, 2, 1, 2, 1, 1, 0>>

\* what popcnt256 adds for a byte of value x: lo = x & 0x0f and
\* hi = (x >> 4) & 0x0f index the tables, _mm256_sad_epu8 takes |p1 - p2|
Popcnt256Byte(x) ==
    LET p1 == lookup1[(x % 16) + 1]
        p2 == lookup2[(x \div 16) + 1]
    IN  IF p1 >= p2 THEN p1 - p2 ELSE p2 - p1

\* popcnt256: _mm256_sad_epu8 sums the eight bytes of each 64-bit sub-lane
popcnt256(v) ==
    [k \in 0..3 |-> SumTo([b \in 0..7 |-> Popcnt256Byte(ByteOf(v, 8 * k + b))], 8)]

\* what popcnt512 leaves in a byte of value x.  The 16-bit shifts bring bits
\* of the neighbouring byte only into positions the masks m1 and m2 clear, and
\* into the high nibble of t2 >> 4, which cannot carry into the low nibble
\* that m4 keeps.
Popcnt512Byte(x) ==
    LET t1 == (x + 256 - BitAnd(x \div 2, 85)) % 256
        t2 == (BitAnd(t1, 51) + BitAnd(t1 \div 4, 51)) % 256
    IN  BitAnd((t2 + (t2 \div 16)) % 256, 15)

\* popcnt512: _mm512_sad_epu8 against zero sums the eight bytes of each
\* 64-bit sub-lane
popcnt512(v) ==
    [k \in 0..7 |-> SumTo([b \in 0..7 |-> Popcnt512Byte(ByteOf(v, 8 * k + b))], 8)]

(***************************************************************************)
(* Carry-save adders.                                                      *)
(***************************************************************************)
Xor(a, b) == (a \ b) \cup (b \ a)

CSA128(a, b, c) ==
    LET u == Xor(a, b)
    IN  [h |-> (a \cap b) \cup (u \cap c), l |-> Xor(u, c)]

CSA256(a, b, c) ==
    LET u == Xor(a, b)
    IN  [h |-> (a \cap b) \cup (u \cap c), l |-> Xor(u, c)]

\* _mm512_ternarylogic_epi32(a, b, c, imm8): bit p of the result is bit
\* (4*a_p + 2*b_p + c_p) of imm8
TernaryLogic(a, b, c, imm8) ==
    LET idx(p) == (IF p \in a THEN 4 ELSE 0) + (IF p \in b THEN 2 ELSE 0)
                  + (IF p \in c THEN 1 ELSE 0)
        dom == IF imm8 % 2 = 1 THEN 0..511 ELSE a \cup b \cup c
    IN  {p \in dom : (imm8 \div 2^idx(p)) % 2 = 1}

\* a CSA whose carry table is that of a OR (b AND c)
CSA512_or(a, b, c) ==
    [l |-> TernaryLogic(c, b, a, 150), h |-> TernaryLogic(c, b, a, 248)]

\* *l = ternarylogic(c, b, a, 0x96); *h = ternarylogic(c, b, a, 0xe8)
CSA512(a, b, c) ==
    [l |-> TernaryLogic(c, b, a, 150), h |-> TernaryLogic(c, b, a, 232)]

CSA(L, a, b, c) ==
    CASE L = 128 -> CSA128(a, b, c)
      [] L = 256 -> CSA256(a, b, c)
      [] L = 512 -> CSA512(a, b, c)

(***************************************************************************)
(* Harley-Seal kernels.  A kernel state holds the accumulators and cnt,    *)
(* which is a scalar (cnt64) at 128 bits and a vector of 64-bit sub-lanes  *)
(* at 256 and 512 bits.                                                    *)
(***************************************************************************)
Lanes(L) == L \div WordBits

\* data[idx] of a pointer p cast to a pointer to L-bit registers
LoadReg(mem, p, idx, L) ==
    UNION {{WordBits * k + b : b \in mem[p + idx * Lanes(L) + k]} : k \in 0..(Lanes(L) - 1)}

\* data1[idx] & data2[idx]
AndReg(mem, p1, p2, idx, L) == LoadReg(mem, p1, idx, L) \cap LoadReg(mem, p2, idx, L)

PopL(L, v) ==
    CASE L = 128 -> FIC_POPCOUNT_SSE(v)
      [] L = 256 -> popcnt256(v)
      [] L = 512 -> popcnt512(v)

\* cnt64 + x, _mm256_add_epi64, _mm512_add_epi64
AddL(L, x, y) == IF L = 128 THEN x + y ELSE [k \in DOMAIN x |-> x[k] + y[k]]

\* x << s, _mm256_slli_epi64, _mm512_slli_epi64
ShlL(L, x, s) == IF L = 128 THEN x * 2^s ELSE [k \in DOMAIN x |-> x[k] * 2^s]

HSInit(L) ==
    [ones |-> {}, twos |-> {}, fours |-> {}, eights |-> {}, sixteens |-> {},
     cnt |-> IF L = 128 THEN 0 ELSE [k \in 0..(Lanes(L) - 1) |-> 0]]

\* *hi = c.h; *lo = c.l, for the outputs c of one CSA
CsaPut(r, hi, lo, c) == [r EXCEPT ![hi] = c.h, ![lo] = c.l]

\* CSA(&hi, &lo, a, b, c) on named registers of the register file r
CsaRegs(L, r, hi, lo, a, b, c) == CsaPut(r, hi, lo, CSA(L, r[a], r[b], r[c]))

\* CSA(&hi, &lo, a, data1[x] & data2[x], data1[y] & data2[y])
CsaData(L, r, mem, p1, p2, hi, lo, a, x, y) ==
    CsaPut(r, hi, lo, CSA(L, r[a], AndReg(mem, p1, p2, x, L), AndReg(mem, p1, p2, y, L)))

\* the accumulators at the end of an iteration, and cnt + popcount(sixteens)
HSKeep(L, st, r) ==
    [ones |-> r.ones, twos |-> r.twos, fours |-> r.fours, eights |-> r.eights,
     sixteens |-> r.sixteens, cnt |-> AddL(L, st.cnt, PopL(L, r.sixteens))]

\* the fifteen CSA lines of the loop body, in order: the outputs (hi, lo),
\* the first input, and either the two data blocks i+x, i+y or two registers
HSLines ==
    << <<"data", "twosA",    "ones",   "ones",   0,  1>>,
       <<"data", "twosB",    "ones",   "ones",   2,  3>>,
       <<"regs", "foursA",   "twos",   "twos",   "twosA",   "twosB">>,
       <<"data", "twosA",    "ones",   "ones",   4,  5>>,
       <<"data", "twosB",    "ones",   "ones",   6,  7>>,
       <<"regs", "foursB",   "twos",   "twos",   "twosA",   "twosB">>,
       <<"regs", "eightsA",  "fours",  "fours",  "foursA",  "foursB">>,
       <<"data", "twosA",    "ones",   "ones",   8,  9>>,
       <<"data", "twosB",    "ones",   "ones",   10, 11>>,
       <<"regs", "foursA",   "twos",   "twos",   "twosA",   "twosB">>,
       <<"data", "twosA",    "ones",   "ones",   12, 13>>,
       <<"data", "twosB",    "ones",   "ones",   14, 15>>,
       <<"regs", "foursB",   "twos",   "twos",   "twosA",   "twosB">>,
       <<"regs", "eightsB",  "fours",  "fours",  "foursA",  "foursB">>,
       <<"regs", "sixteens", "eights", "eights", "eightsA", "eightsB">> >>

\* one CSA line of the loop body at block index i
HSLine(L, r, mem, p1, p2, i, ln) ==
    IF ln[1] = "data"
    THEN CsaData(L, r, mem, p1, p2, ln[2], ln[3], ln[4], i + ln[5], i + ln[6])
    ELSE CsaRegs(L, r, ln[2], ln[3], ln[4], ln[5], ln[6])

\* the CSA lines k.. of the loop body, run in order on the register file r
RECURSIVE HSLinesFrom(_, _, _, _, _, _, _)
HSLinesFrom(L, r, mem, p1, p2, i, k) ==
    IF k > Len(HSLines) THEN r
    ELSE HSLinesFrom(L, HSLine(L, r, mem, p1, p2, i, HSLines[k]), mem, p1, p2, i, k + 1)

\* the register file on entry to an iteration; the temporaries twosA ..
\* eightsB are written before they are read
HSRegs(st) ==
    [ones |-> st.ones, twos |-> st.twos, fours |-> st.fours, eights |-> st.eights,
     sixteens |-> st.sixteens, twosA |-> {}, twosB |-> {}, foursA |-> {},
     foursB |-> {}, eightsA |-> {}, eightsB |-> {}]

\* one iteration of the 16-block loop, at block index i
HSRound(L, st, mem, p1, p2, i) ==
    HSKeep(L, st, HSLinesFrom(L, HSRegs(st), mem, p1, p2, i, 1))

\* the four lines after the loop: cnt <<= 4, then the weighted accumulators
HSFinish(L, st) ==
    LET c0 == ShlL(L, st.cnt, 4)
        c1 == AddL(L, c0, ShlL(L, PopL(L, st.eights), 3))
        c2 == AddL(L, c1, ShlL(L, PopL(L, st.fours), 2))
        c3 == AddL(L, c2, ShlL(L, PopL(L, st.twos), 1))
        c4 == AddL(L, c3, ShlL(L, PopL(L, st.ones), 0))
    IN  [st EXCEPT !.cnt = c4]

\* one iteration of the residual loop: the 128-bit kernel assigns cnt64,
\* the 256- and 512-bit kernels add to cnt
HSTail(L, st, mem, p1, p2, i) ==
    IF L = 128
    THEN [st EXCEPT !.cnt = FIC_POPCOUNT_SSE(AndReg(mem, p1, p2, i, L))]
    ELSE [st EXCEPT !.cnt = AddL(L, st.cnt, PopL(L, AndReg(mem, p1, p2, i, L)))]

\* the value returned: cnt64, or the sum of the sub-lanes of cnt
HSResult(L, st) ==
    IF L = 128 THEN st.cnt ELSE SumTo(st.cnt, Lanes(L))

RECURSIVE HSLoop(_, _, _, _, _, _, _)
HSLoop(L, st, mem, p1, p2, i, limit) ==
    IF i < limit THEN HSLoop(L, HSRound(L, st, mem, p1, p2, i), mem, p1, p2, i + 16, limit)
    ELSE st

RECURSIVE HSTailLoop(_, _, _, _, _, _, _)
HSTailLoop(L, st, mem, p1, p2, i, size) ==
    IF i < size THEN HSTailLoop(L, HSTail(L, st, mem, p1, p2, i), mem, p1, p2, i + 1, size)
    ELSE st

\* popcnt_{sse4,avx2,avx512}_csa_intersect(data1, data2, size)
popcnt_csa_intersect(L, mem, p1, p2, size) ==
    LET limit == size - (size % 16)
        s1 == HSLoop(L, HSInit(L), mem, p1, p2, 0, limit)
        s2 == HSFinish(L, s1)
        s3 == HSTailLoop(L, s2, mem, p1, p2, limit, size)
    IN  HSResult(L, s3)

\* count += _mm_popcnt_u64(b1[i] & b2[i]) for i in from..n_ints-1
RECURSIVE WordLoop(_, _, _, _, _)
WordLoop(mem, b1, b2, i, n_ints) ==
    IF i < n_ints
    THEN FIC_POPCOUNT(mem[b1 + i] \cap mem[b2 + i]) + WordLoop(mem, b1, b2, i + 1, n_ints)
    ELSE 0

\* intersect_bitmaps_{sse4,avx2,avx512_csa}(b1, b2, n_ints)
intersect_bitmaps_simd(L, mem, b1, b2, n_ints) ==
    LET n_cycles == n_ints \div Lanes(L)
    IN  popcnt_csa_intersect(L, mem, b1, b2, n_cycles)
        + WordLoop(mem, b1, b2, n_cycles * Lanes(L), n_ints)

intersect_bitmaps_sse4(mem, b1, b2, n_ints) == intersect_bitmaps_simd(128, mem, b1, b2, n_ints)

intersect_bitmaps_avx2(mem, b1, b2, n_ints) == intersect_bitmaps_simd(256, mem, b1, b2, n_ints)

intersect_bitmaps_avx512_csa(mem, b1, b2, n_ints) == intersect_bitmaps_simd(512, mem, b1, b2, n_ints)

(***************************************************************************)
(* Scalar kernel.                                                          *)
(***************************************************************************)
\* the body of the 4-way unrolled loop at index i
Scalar4(mem, b1, b2, i) ==
    FIC_POPCOUNT(mem[b1 + i] \cap mem[b2 + i])
    + FIC_POPCOUNT(mem[b1 + i + 1] \cap mem[b2 + i + 1])
    + FIC_POPCOUNT(mem[b1 + i + 2] \cap mem[b2 + i + 2])
    + FIC_POPCOUNT(mem[b1 + i + 3] \cap mem[b2 + i + 3])

RECURSIVE ScalarLoop(_, _, _, _, _)
ScalarLoop(mem, b1, b2, i, n_ints) ==
    IF i + 4 < n_ints
    THEN Scalar4(mem, b1, b2, i) + ScalarLoop(mem, b1, b2, i + 4, n_ints)
    ELSE WordLoop(mem, b1, b2, i, n_ints)

intersect_bitmaps_scalar(mem, b1, b2, n_ints) == ScalarLoop(mem, b1, b2, 0, n_ints)

(***************************************************************************)
(* Sparse positional kernel.                                               *)
(***************************************************************************)
\* #define MOD(x) (( (x) * 64 ) >> 6), on a uint32_t x
MOD(x) == U32(x * 64) \div 64

\* 1L << s, as the set of bits of the mask.  A shift count of 64 or more is
\* undefined in C; ub is what the build makes of it: "wrap" is the scalar
\* shl/shlx instruction, which uses the count modulo 64; "zero" is the
\* vector shift vpsllvq of an auto-vectorised loop, which shifts the bit out.
ShiftUB == {"wrap", "zero"}

ShiftLeft1L(s, ub) ==
    IF s < WordBits THEN {s}
    ELSE IF ub = "wrap" THEN {s % WordBits}
    ELSE {}

\* (b[p >> 6] & (1L << MOD(p))) != 0
ListProbe(mem, b, p, ub) ==
    IF mem[b + (p \div 64)] \cap ShiftLeft1L(MOD(p), ub) # {} THEN 1 ELSE 0

RECURSIVE ListLoop(_, _, _, _, _, _, _)
ListLoop(mem, b, pos, l, i, n, ub) ==
    IF i < n THEN ListProbe(mem, b, pos[l + i], ub) + ListLoop(mem, b, pos, l, i + 1, n, ub)
    ELSE 0

\* TRUE when the kernel walks l1 and probes b2, FALSE when it walks l2 and probes b1
ListWalksFirst(n1, n2) == n1 < n2

intersect_bitmaps_scalar_list(mem, b1, b2, pos, l1, l2, n1, n2, ub) ==
    IF ListWalksFirst(n1, n2)
    THEN ListLoop(mem, b2, pos, l1, 0, n1, ub)
    ELSE ListLoop(mem, b1, pos, l2, 0, n2, ub)

\* the register width of the kernel named f
LaneWidth(f) ==
    CASE f = "scalar" -> 64
      [] f = "sse4"   -> 128
      [] f = "avx2"   -> 256
      [] f = "avx512" -> 512

\* (*f)(b1, b2, n_ints) for the dense kernel named f: the three SIMD kernels
\* are intersect_bitmaps_simd at their register width; "unit" is a kernel of
\* the caller's that reads nothing and returns 1
Kernel(f, mem, b1, b2, n_ints) ==
    IF f = "unit" THEN 1
    ELSE IF f = "scalar" THEN intersect_bitmaps_scalar(mem, b1, b2, n_ints)
    ELSE intersect_bitmaps_simd(LaneWidth(f), mem, b1, b2, n_ints)

(***************************************************************************)
(* Inputs.  A bit vector is given as the set of its set bit positions.     *)
(***************************************************************************)
\* word k of the bit vector S
WordOf(S, k) == {p % WordBits : p \in {q \in S : q \div WordBits = k}}

\* the ascending list of the elements of S, indexed from 0
RECURSIVE SortedFrom(_)
SortedFrom(S) ==
    IF S = {} THEN <<>>
    ELSE LET m == CHOOSE x \in S : \A y \in S : x <= y
         IN  <<m>> \o SortedFrom(S \ {m})

PositionList(S) == LET q == SortedFrom(S) IN [k \in 0..(Len(q) - 1) |-> q[k + 1]]

\* word k of a test pattern
PatWord(pat, k) ==
    CASE pat = "ones" -> 0..63
      [] pat = "even" -> {b \in 0..63 : b % 2 = 0}
      [] pat = "idx"  -> {k % 64}
      [] pat = "low3" -> IF k % 3 = 0 THEN {0, 1, 63} ELSE {}
      [] pat = "mix"  -> {b \in 0..63 : ((b + 1) * (k + 3)) % 5 < 2}

Patterns == {"ones", "even", "idx", "low3", "mix"}

VARIABLES
    \* one kernel call under test
    karg,    \* the arguments of the kernel call
    kpc,     \* where the kernel is
    ki,      \* its loop index i
    kst,     \* the Harley-Seal accumulators and cnt
    kcount,  \* count, the value returned at the end
    \* a caller running entry points one after the other
    call,        \* the caller's inputs: the script of entry points and their arguments
    step,        \* index in call.script of the entry point running
    results,     \* the values returned so far
    cpuid_,      \* the static cpuid_ of each entry point, -1 until published
    cpuid,       \* the local cpuid of the running entry point
    f,           \* the dense kernel handed to the driver
    block_size,  \* the driver's block_size
    cutoff,      \* the driver's cutoff parameter
    pc,          \* where the running entry point or driver is
    i, j, jj, ii, curi, left, right, total,   \* the driver's locals
    calls,       \* the kernel calls the driver made, in order
    before,      \* the kernel calls of the script's previous entry, in order
    \* threads racing through the prologue of an entry point
    hw,       \* what CPUID and XGETBV report on this machine
    tentry,   \* the entry point each thread called
    tpc,      \* where each thread is
    tcpuid,   \* each thread's local cpuid
    tkernel,  \* the kernel each thread dispatched to
    tfrom     \* whether each thread read its mask from cpuid_ or computed it

kvars == <<karg, kpc, ki, kst, kcount>>

dvars == <<call, step, results, cpuid, f, block_size, cutoff, pc, i, j, jj, ii, curi, left, right,
           total, calls, before>>

tvars == <<hw, tentry, tpc, tcpuid, tkernel, tfrom>>

vars == <<kvars, dvars, cpuid_, tvars>>

EntryPoints == {"intersect", "intersect_list"}

\* the functions that keep a static cpuid_ of their own
Cached == EntryPoints \cup {"get_alignment"}

\* no kernel call under test
KernelOff ==
    /\ karg = [f |-> "none"]
    /\ kpc = "off"
    /\ ki = 0
    /\ kst = [ones |-> {}, twos |-> {}, fours |-> {}, eights |-> {}, sixteens |-> {}, cnt |-> 0]
    /\ kcount = 0

\* no caller
DriverOff ==
    /\ call = [script |-> <<>>]
    /\ step = 0
    /\ results = <<>>
    /\ cpuid = -1
    /\ f = "none"
    /\ block_size = 0
    /\ cutoff = 0
    /\ pc = "off"
    /\ i = 0 /\ j = 0 /\ jj = 0 /\ ii = 0 /\ curi = 0 /\ left = 0 /\ right = 0 /\ total = 0
    /\ calls = <<>> /\ before = <<>>

\* no racing threads
ThreadsOff ==
    /\ hw = [ecx1 |-> 0, ebx7 |-> 0, xcr0 |-> 0]
    /\ tentry = <<>>
    /\ tpc = <<>>
    /\ tcpuid = <<>>
    /\ tkernel = <<>>
    /\ tfrom = <<>>

\* static int cpuid_ = -1, one per entry point
CacheInit == cpuid_ = [e \in Cached |-> -1]

IsSimd(kf) == kf \in {"sse4", "avx2", "avx512"}

\* the two operands of a dense kernel call: b1 at word 0, b2 at word n_ints
KMem ==
    IF karg.f = "scalar_list"
    THEN [k \in 0..(2 * karg.n_ints - 1) |->
            IF k < karg.n_ints THEN WordOf(karg.A, k) ELSE WordOf(karg.B, k - karg.n_ints)]
    ELSE [k \in 0..(2 * karg.n_ints - 1) |->
            IF k < karg.n_ints THEN PatWord(karg.pa, k) ELSE PatWord(karg.pb, k - karg.n_ints)]

\* l1 followed by l2
KPos ==
    LET la == PositionList(karg.A)
        lb == PositionList(karg.B)
        na == Cardinality(karg.A)
    IN  [k \in 0..(na + Cardinality(karg.B) - 1) |-> IF k < na THEN la[k] ELSE lb[k - na]]

KCycles == {0, 1, 2, 15, 16, MaxCycles, 2 * MaxCycles}

KSizes(kf) ==
    IF kf = "scalar" THEN 0..9
    ELSE {c * Lanes(LaneWidth(kf)) + r : c \in KCycles, r \in {0, 1, Lanes(LaneWidth(kf)) - 1}}

\* bit vectors for the sparse kernel, of W words
ListVectors(W) ==
    {S \in {{}, {0}, {63}, {5, 63}, {64}, {0, 64}, {1, 65, 127}, {0, 1, 2, 69}, {63, 64, 127, 128}}
        : \A p \in S : p < WordBits * W}

MaxListWords == 2

KernelInit ==
    /\ \/ \E kf \in {"scalar", "sse4", "avx2", "avx512"}, pa \in Patterns, pb \in Patterns :
            \E n \in KSizes(kf) :
                karg = [f |-> kf, n_ints |-> n, pa |-> pa, pb |-> pb]
       \/ \E W \in 1..MaxListWords, ub \in ShiftUB :
            \E A \in ListVectors(W), B \in ListVectors(W) :
                karg = [f |-> "scalar_list", n_ints |-> W, A |-> A, B |-> B, ub |-> ub]
    /\ kpc = "call"
    /\ ki = 0
    /\ kst = HSInit(128)
    /\ kcount = 0
    /\ DriverOff /\ ThreadsOff /\ CacheInit

\* entry of intersect_bitmaps_{sse4,avx2,avx512_csa} and of the csa kernel
K_EnterSimd ==
    /\ kpc = "call" /\ IsSimd(karg.f)
    /\ kpc' = "csa_loop"
    /\ ki' = 0
    /\ kst' = HSInit(LaneWidth(karg.f))
    /\ kcount' = 0
    /\ UNCHANGED <<karg, dvars, cpuid_, tvars>>

KCyclesOf == karg.n_ints \div Lanes(LaneWidth(karg.f))

KLimit == KCyclesOf - (KCyclesOf % 16)

K_Round ==
    /\ kpc = "csa_loop" /\ ki < KLimit
    /\ kst' = HSRound(LaneWidth(karg.f), kst, KMem, 0, karg.n_ints, ki)
    /\ ki' = ki + 16
    /\ UNCHANGED <<karg, kpc, kcount, dvars, cpuid_, tvars>>

K_Finish ==
    /\ kpc = "csa_loop" /\ ~(ki < KLimit)
    /\ kst' = HSFinish(LaneWidth(karg.f), kst)
    /\ kpc' = "csa_tail"
    /\ UNCHANGED <<karg, ki, kcount, dvars, cpuid_, tvars>>

K_Tail ==
    /\ kpc = "csa_tail" /\ ki < KCyclesOf
    /\ kst' = HSTail(LaneWidth(karg.f), kst, KMem, 0, karg.n_ints, ki)
    /\ ki' = ki + 1
    /\ UNCHANGED <<karg, kpc, kcount, dvars, cpuid_, tvars>>

\* return of the csa kernel: count += ..., and the start of the word loop
K_CsaReturn ==
    /\ kpc = "csa_tail" /\ ~(ki < KCyclesOf)
    /\ kcount' = kcount + HSResult(LaneWidth(karg.f), kst)
    /\ ki' = KCyclesOf * Lanes(LaneWidth(karg.f))
    /\ kpc' = "words"
    /\ UNCHANGED <<karg, kst, dvars, cpuid_, tvars>>

K_EnterScalar ==
    /\ kpc = "call" /\ karg.f = "scalar"
    /\ kpc' = "scalar4"
    /\ ki' = 0
    /\ kcount' = 0
    /\ UNCHANGED <<karg, kst, dvars, cpuid_, tvars>>

K_Scalar4 ==
    /\ kpc = "scalar4" /\ ki + 4 < karg.n_ints
    /\ kcount' = kcount + Scalar4(KMem, 0, karg.n_ints, ki)
    /\ ki' = ki + 4
    /\ UNCHANGED <<karg, kpc, kst, dvars, cpuid_, tvars>>

K_Scalar4Exit ==
    /\ kpc = "scalar4" /\ ~(ki + 4 < karg.n_ints)
    /\ kpc' = "words"
    /\ UNCHANGED <<karg, ki, kst, kcount, dvars, cpuid_, tvars>>

\* one iteration of a trailing one-word-at-a-time loop
K_Word ==
    /\ kpc = "words" /\ ki < karg.n_ints
    /\ kcount' = kcount + FIC_POPCOUNT(KMem[ki] \cap KMem[karg.n_ints + ki])
    /\ ki' = ki + 1
    /\ UNCHANGED <<karg, kpc, kst, dvars, cpuid_, tvars>>

K_Return ==
    /\ kpc = "words" /\ ~(ki < karg.n_ints)
    /\ kpc' = "done"
    /\ UNCHANGED <<karg, ki, kst, kcount, dvars, cpuid_, tvars>>

K_EnterList ==
    /\ kpc = "call" /\ karg.f = "scalar_list"
    /\ kpc' = IF ListWalksFirst(Cardinality(karg.A), Cardinality(karg.B)) THEN "list1" ELSE "list2"
    /\ ki' = 0
    /\ kcount' = 0
    /\ UNCHANGED <<karg, kst, dvars, cpuid_, tvars>>

\* n1 < n2: walk l1, probe b2
K_Probe1 ==
    /\ kpc = "list1" /\ ki < Cardinality(karg.A)
    /\ kcount' = kcount + ListProbe(KMem, karg.n_ints, KPos[ki], karg.ub)
    /\ ki' = ki + 1
    /\ UNCHANGED <<karg, kpc, kst, dvars, cpuid_, tvars>>

\* otherwise: walk l2, probe b1
K_Probe2 ==
    /\ kpc = "list2" /\ ki < Cardinality(karg.B)
    /\ kcount' = kcount + ListProbe(KMem, 0, KPos[Cardinality(karg.A) + ki], karg.ub)
    /\ ki' = ki + 1
    /\ UNCHANGED <<karg, kpc, kst, dvars, cpuid_, tvars>>

K_ListReturn ==
    /\ \/ kpc = "list1" /\ ~(ki < Cardinality(karg.A))
       \/ kpc = "list2" /\ ~(ki < Cardinality(karg.B))
    /\ kpc' = "done"
    /\ UNCHANGED <<karg, ki, kst, kcount, dvars, cpuid_, tvars>>

KernelNext ==
    \/ K_EnterSimd \/ K_Round \/ K_Finish \/ K_Tail \/ K_CsaReturn
    \/ K_EnterScalar \/ K_Scalar4 \/ K_Scalar4Exit \/ K_Word \/ K_Return
    \/ K_EnterList \/ K_Probe1 \/ K_Probe2 \/ K_ListReturn

SpecKernel == KernelInit /\ [][KernelNext]_vars

\* what the kernel under test must return: the popcount of the AND
KExpected == SumTo([k \in 0..(karg.n_ints - 1) |-> Cardinality(KMem[k] \cap KMem[karg.n_ints + k])], karg.n_ints)

(***************************************************************************)
(* The caller's inputs.                                                    *)
(***************************************************************************)
\* the bits of vector v of a bundle of W-word vectors
VecBits(kind, v, W) ==
    LET heavy == (0..63) \cup {WordBits * (W - 1) + v}
        light == {v, WordBits * (W - 1) + 1 + (v % 2)}
    IN  CASE W = 0 \/ kind = "zero" -> {}
          [] kind = "heavy" -> heavy
          [] kind = "light" -> light
          [] kind = "mixed" -> IF v % 2 = 0 THEN heavy ELSE light

Kinds == {"heavy", "light", "mixed"}

\* the exact side-table of a bundle: popcounts, offsets, ascending positions
RECURSIVE ConcatPositions(_, _, _, _)
ConcatPositions(kind, N, W, v) ==
    IF v < N THEN SortedFrom(VecBits(kind, v, W)) \o ConcatPositions(kind, N, W, v + 1)
    ELSE <<>>

SideTable(kind, N, W) ==
    LET n == [v \in 0..(N - 1) |-> Cardinality(VecBits(kind, v, W))]
        q == ConcatPositions(kind, N, W, 0)
    IN  [n_alts |-> n,
         alt_offsets |-> [v \in 0..(N - 1) |-> SumTo(n, v)],
         alt_positions |-> [k \in 0..(Len(q) - 1) |-> q[k + 1]]]

MkCall(script, h, N, W, kind, kf, B, c, ub) ==
    [script |-> script, hw |-> h, n_vectors |-> N, n_ints |-> W, kind |-> kind,
     f |-> kf, block_size |-> B, cutoff |-> c, ub |-> ub, side |-> SideTable(kind, N, W)]

\* the bundle: vector v at words [v*W, (v+1)*W)
Vals ==
    [k \in 0..(call.n_vectors * call.n_ints - 1) |->
        WordOf(VecBits(call.kind, k \div call.n_ints, call.n_ints), k % call.n_ints)]

AllFlags1 == BitOr(BitOr(bit_POPCNT, bit_SSE41), BitOr(bit_SSE42, osxsave_mask))

AllXcr0 == BitOr(BitOr(XSTATE_SSE, XSTATE_YMM), XSTATE_ZMM)

HwNone == [ecx1 |-> 0, ebx7 |-> 0, xcr0 |-> 0]

\* machines whose masks are: nothing, SSE4.1, SSE4.1+AVX2, everything, and
\* AVX2+AVX512BW without SSE4.1
HwDriver ==
    {HwNone,
     [ecx1 |-> AllFlags1, ebx7 |-> 0, xcr0 |-> XSTATE_SSE],
     [ecx1 |-> AllFlags1, ebx7 |-> bit_AVX2, xcr0 |-> BitOr(XSTATE_SSE, XSTATE_YMM)],
     [ecx1 |-> AllFlags1, ebx7 |-> BitOr(bit_AVX2, bit_AVX512BW), xcr0 |-> AllXcr0],
     [ecx1 |-> osxsave_mask, ebx7 |-> BitOr(bit_AVX2, bit_AVX512BW), xcr0 |-> AllXcr0]}

\* the sums of the subsets of a set of distinct bits
RECURSIVE BitSums(_)
BitSums(bits) ==
    IF bits = {} THEN {0}
    ELSE LET b == CHOOSE x \in bits : TRUE
             rest == BitSums(bits \ {b})
         IN  rest \cup {b + r : r \in rest}

\* every combination of the CPUID and XCR0 bits get_cpuid() looks at
HwAll ==
    {[ecx1 |-> a, ebx7 |-> b, xcr0 |-> c] :
        a \in BitSums({bit_POPCNT, bit_SSE41, bit_SSE42, osxsave_mask}),
        b \in BitSums({bit_AVX2, bit_AVX512BW}),
        c \in BitSums({XSTATE_SSE, XSTATE_YMM, 2^5, 2^6, 2^7})}

\* vector lengths around the dispatch thresholds 32, 64 and 128
DispatchWidths == {1, 31, 32, 34, 63, 64, 68, 127, 128, 136}

\* vector lengths whose computed block size is 2, 1 and 0
LargeWidths == {16000, 32000, 32001}

Cutoffs == {0, 50, 1000}

\* largest number of vectors handed to an entry point
MaxEntryVectors == 3

DirectCalls ==
    {MkCall(<<"c_fwrapper_blocked">>, HwNone, N, W, kind, kf, B, 0, "wrap") :
        N \in 0..MaxVectors, W \in {1, 2}, kind \in Kinds, kf \in {"scalar", "sse4"},
        B \in 0..MaxBlockSize}

DirectListCalls ==
    {MkCall(<<"c_flwrapper_blocked">>, HwNone, N, W, kind, "scalar", B, c, ub) :
        N \in 0..MaxVectors, W \in {1, 2}, kind \in Kinds, B \in 0..MaxBlockSize,
        c \in Cutoffs, ub \in ShiftUB}
    \cup
    {MkCall(<<"c_fwrapper_blocked", "c_flwrapper_blocked">>, HwNone, N, W, "mixed", "scalar",
            B, c, "wrap") :
        N \in 0..MaxVectors, W \in {1, 2}, B \in 0..MaxBlockSize, c \in Cutoffs}

EntryCalls ==
    {MkCall(<<"intersect_list", "intersect">>, h, N, W, kind, "none", 0, c, ub) :
        h \in HwDriver, N \in 0..MaxEntryVectors, W \in DispatchWidths, kind \in Kinds,
        c \in Cutoffs, ub \in ShiftUB}
    \cup
    {MkCall(<<"intersect_list", "intersect">>, h, N, W, "light", "none", 0, 50, "wrap") :
        h \in HwDriver, N \in 0..1, W \in LargeWidths}
    \cup
    {MkCall(<<"intersect_list", "intersect">>, h, N, 0, "light", "none", 0, 50, "wrap") :
        h \in HwDriver, N \in 0..MaxEntryVectors}
    \cup
    {MkCall(<<"intersect_list", "intersect">>, h, 2, 129, "light", "none", 0, 50, "wrap") :
        h \in HwDriver}
    \cup
    {MkCall(<<"get_alignment", "intersect">>, h, 0, W, "light", "none", 0, 50, "wrap") :
        h \in HwAll, W \in {1, 32, 64, 128}}

\* a vector width at which the fifth vector of a bundle starts at word 2^32
HugeWidth == 1073741824

\* direct calls of the blocked drivers on bundles of HugeWidth words a vector,
\* all words zero, with a kernel of the caller's that reads none of them
HugeCalls ==
    {MkCall(<<e>>, HwNone, N, HugeWidth, "zero", "unit", B, 0, "wrap") :
        e \in {"c_fwrapper_blocked", "c_flwrapper_blocked"}, N \in 0..MaxVectors,
        B \in 0..MaxBlockSize}

\* the calls of the entry points made next to them
OffsetsEntryCalls ==
    {c \in EntryCalls : c.hw = HwNone /\ c.n_ints <= 2 /\ c.ub = "wrap"}

Running == call.script[step]

IsEntryPoint(e) == e \in EntryPoints

\* TRUE for the drivers that take the side-table
IsListDriver(e) == e \in {"c_flwrapper_blocked", "intersect_list"}

DriverInitFrom(S) ==
    /\ call \in S
    /\ step = 1
    /\ results = <<>>
    /\ cpuid = -1
    /\ f = call.f
    /\ block_size = call.block_size
    /\ cutoff = call.cutoff
    /\ pc = IF call.script[1] \in Cached THEN "detect" ELSE "enter"
    /\ i = 0 /\ j = 0 /\ jj = 0 /\ ii = 0 /\ curi = 0 /\ left = 0 /\ right = 0 /\ total = 0
    /\ calls = <<>> /\ before = <<>>
    /\ CacheInit
    /\ KernelOff /\ ThreadsOff

(***************************************************************************)
(* The prologue and dispatch of intersect() and intersect_list().          *)
(***************************************************************************)
\* a prologue that takes 0, not -1, for the sentinel
NeedsDetectZero(c) == c = 0

\* if (cpuid == -1)
NeedsDetect(c) == c = -1

\* __sync_val_compare_and_swap(&cpuid_, -1, cpuid): the new value of cpuid_
CompareAndSwap(cur, expected, new) == IF cur = expected THEN new ELSE cur

\* (cpuid & bit) as a condition
Flagged(mask, bit) == BitAnd(mask, bit) # 0

\* the kernel intersect() hands to c_fwrapper_blocked
SelectKernel(mask, W) ==
    IF Flagged(mask, bit_AVX512BW) /\ W >= 128 THEN "avx512"
    ELSE IF Flagged(mask, bit_AVX2) /\ W >= 64 THEN "avx2"
    ELSE IF Flagged(mask, bit_SSE41) /\ W >= 32 THEN "sse4"
    ELSE "scalar"

\* a dispatch whose thresholds are half the kernels' block lengths
SelectKernelListNarrow(mask, W) ==
    IF Flagged(mask, bit_AVX512BW) /\ W >= 64 THEN "avx512"
    ELSE IF Flagged(mask, bit_AVX2) /\ W >= 32 THEN "avx2"
    ELSE IF Flagged(mask, bit_SSE41) /\ W >= 16 THEN "sse4"
    ELSE "scalar"

\* the dense kernel intersect_list() hands to c_flwrapper_blocked
SelectKernelList(mask, W) ==
    IF Flagged(mask, bit_AVX512BW) /\ W >= 128 THEN "avx512"
    ELSE IF Flagged(mask, bit_AVX2) /\ W >= 64 THEN "avx2"
    ELSE IF Flagged(mask, bit_SSE41) /\ W >= 32 THEN "sse4"
    ELSE "scalar"

\* FIC_DEFAULT_BLOCK/(n_bitmaps_vector*8), converted to uint32_t
BlockSizeFor(W) == FIC_DEFAULT_BLOCK \div U32(W * 8)

\* +infinity converted to uint32_t.  The conversion is undefined; the x86-64
\* builds leave either the low half of cvttsd2si's 0x8000000000000000, which
\* is 0, or vcvttsd2usi's 0xFFFFFFFF.
InfToU32 == {0, U32(0 - 1)}

\* FIC_DEFAULT_BLOCK is the double 256e3, so the quotient is one of doubles:
\* by n_bitmaps_vector*8 = 0 it is +infinity
BlockSizes(W) == IF U32(W * 8) = 0 THEN InfToU32 ELSE {BlockSizeFor(W)}

\* an if-chain that tests the narrowest instruction set first
get_alignment_narrow(mask) ==
    IF Flagged(mask, bit_SSE41) THEN FIC_SSE_ALIGNMENT
    ELSE IF Flagged(mask, bit_AVX2) THEN FIC_AVX2_ALIGNMENT
    ELSE IF Flagged(mask, bit_AVX512BW) THEN FIC_AVX512_ALIGNMENT
    ELSE 8

\* the if-chain of get_alignment() on its local cpuid
get_alignment(mask) ==
    LET a1 == IF Flagged(mask, bit_AVX512BW) THEN FIC_AVX512_ALIGNMENT ELSE 0
        a2 == IF Flagged(mask, bit_AVX2) /\ a1 = 0 THEN FIC_AVX2_ALIGNMENT ELSE a1
        a3 == IF Flagged(mask, bit_SSE41) /\ a2 = 0 THEN FIC_SSE_ALIGNMENT ELSE a2
    IN  IF a3 = 0 THEN 8 ELSE a3

\* the cutoff intersect_list() hands to c_flwrapper_blocked
ListCutoff(callers) == 50

\* int cpuid = cpuid_; if (cpuid == -1) { cpuid = get_cpuid(); CAS }
D_Detect ==
    /\ pc = "detect"
    /\ LET seen == cpuid_[Running]
           mine == IF NeedsDetect(seen) THEN get_cpuid(call.hw) ELSE seen
       IN  /\ cpuid' = mine
           /\ cpuid_' = IF NeedsDetect(seen)
                        THEN [cpuid_ EXCEPT ![Running] = CompareAndSwap(@, -1, mine)]
                        ELSE cpuid_
    /\ pc' = "dispatch"
    /\ UNCHANGED <<call, before, step, results, f, block_size, cutoff, i, j, jj, ii, curi, left, right,
                   total, calls, kvars, tvars>>

\* the if-chain that selects the kernel and calls the blocked driver
D_Dispatch ==
    /\ pc = "dispatch" /\ IsEntryPoint(Running)
    /\ f' = IF Running = "intersect" THEN SelectKernel(cpuid, call.n_ints)
            ELSE SelectKernelList(cpuid, call.n_ints)
    /\ block_size' \in BlockSizes(call.n_ints)
    /\ cutoff' = IF Running = "intersect_list" THEN ListCutoff(call.cutoff) ELSE cutoff
    /\ pc' = "enter"
    /\ UNCHANGED <<call, before, step, results, cpuid, i, j, jj, ii, curi, left, right, total, calls,
                   cpuid_, kvars, tvars>>

\* get_alignment() after its prologue: the value it returns
D_Alignment ==
    /\ pc = "dispatch" /\ Running = "get_alignment"
    /\ total' = get_alignment(cpuid)
    /\ pc' = "done"
    /\ UNCHANGED <<call, before, step, results, cpuid, f, block_size, cutoff, i, j, jj, ii, curi, left,
                   right, calls, cpuid_, kvars, tvars>>

(***************************************************************************)
(* c_fwrapper_blocked and c_flwrapper_blocked.                             *)
(***************************************************************************)
\* block_size = (block_size == 0 ? 3 : block_size)
RemapBlock(B) == IF B = 0 THEN 3 ELSE B

\* a strip loop that runs while i < n_vectors
FullStripLoose(at, B, N) == at < N

\* i + block_size <= n_vectors, in uint32_t
FullStrip(at, B, N) == ULe(Add32(at, B), N)

\* a diagonal tile whose inner loop starts at jj = j
DiagFirstSelf(jx) == jx

\* first jj of the diagonal tile's inner loop
DiagFirst(jx) == jx + 1

\* a tail whose inner loop starts at j = i + 2
TailFirstSkip(ix) == ix + 2

\* first j of the residual tail's inner loop
TailFirst(ix) == ix + 1

\* TRUE when the n_ints words at word offset p lie inside the bundle
InBundle(p) ==
    WideLe(WideAdd(Wide(p), Wide(call.n_ints)), WideMul(Wide(call.n_ints), call.n_vectors))

\* the sparsity test of c_flwrapper_blocked on side-table entries a and b
IsSparsePair(a, b) == call.side.n_alts[a] < cutoff \/ call.side.n_alts[b] < cutoff

\* (*fl)(&vals[l], &vals[r], &alt_positions[alt_offsets[a]], ..., n_alts[a], n_alts[b])
SparseCall(l, r, a, b) ==
    intersect_bitmaps_scalar_list(Vals, l, r, call.side.alt_positions,
        call.side.alt_offsets[a], call.side.alt_offsets[b],
        call.side.n_alts[a], call.side.n_alts[b], call.ub)

\* one kernel call of the driver, in region reg, on the vectors at word
\* offsets l and r; the list driver consults side-table entries a and b.
\* A pointer outside the bundle, or a side-table index outside it, is a fault.
KernelCall(reg, l, r, a, b) ==
    IF ~InBundle(l) \/ ~InBundle(r)
       \/ (IsListDriver(Running) /\ ~(a < call.n_vectors /\ b < call.n_vectors))
    THEN /\ calls' = Append(calls, [region |-> reg, left |-> l, right |-> r, a |-> a, b |-> b,
                                    kernel |-> "fault"])
         /\ total' = total
    ELSE IF IsListDriver(Running) /\ IsSparsePair(a, b)
    THEN /\ calls' = Append(calls, [region |-> reg, left |-> l, right |-> r, a |-> a, b |-> b,
                                    kernel |-> "sparse"])
         /\ total' = total + SparseCall(l, r, a, b)
    ELSE /\ calls' = Append(calls, [region |-> reg, left |-> l, right |-> r, a |-> a, b |-> b,
                                    kernel |-> "dense"])
         /\ total' = total + Kernel(f, Vals, l, r, call.n_ints)

\* uint64_t total = 0; the remap of block_size; uint32_t i = 0
D_Enter ==
    /\ pc = "enter"
    /\ total' = 0
    /\ block_size' = RemapBlock(block_size)
    /\ i' = 0
    /\ pc' = "outer"
    /\ UNCHANGED <<call, before, step, results, cpuid, f, cutoff, j, jj, ii, curi, left, right, calls,
                   cpuid_, kvars, tvars>>

\* the test of the strip loop; on exit, the start of the residual tail
D_Outer ==
    /\ pc = "outer"
    /\ IF FullStrip(i, block_size, call.n_vectors)
       THEN /\ left' = Mul32(i, call.n_ints)
            /\ right' = 0
            /\ j' = 0
            /\ pc' = "diag_j"
       ELSE /\ left' = Mul32(i, call.n_ints)
            /\ pc' = "tail_i"
            /\ UNCHANGED <<right, j>>
    /\ UNCHANGED <<call, before, step, results, cpuid, f, block_size, cutoff, i, jj, ii, curi, total,
                   calls, cpuid_, kvars, tvars>>

\* diagonal tile, outer loop over j; on exit, the start of the square tiles
D_DiagJ ==
    /\ pc = "diag_j"
    /\ IF j < block_size
       THEN /\ right' = Add32(left, call.n_ints)
            /\ jj' = DiagFirst(j)
            /\ pc' = "diag_jj"
            /\ UNCHANGED <<j, curi>>
       ELSE /\ curi' = i
            /\ j' = Add32(i, block_size)
            /\ pc' = "sq_j"
            /\ UNCHANGED <<right, jj>>
    /\ UNCHANGED <<call, before, step, results, cpuid, f, block_size, cutoff, i, ii, left, total, calls,
                   cpuid_, kvars, tvars>>

D_DiagCall ==
    /\ pc = "diag_jj" /\ jj < block_size
    /\ KernelCall("diagonal", left, right, i + j, i + jj)
    /\ jj' = jj + 1
    /\ right' = Add32(right, call.n_ints)
    /\ UNCHANGED <<call, before, step, results, cpuid, f, block_size, cutoff, pc, i, j, ii, curi, left,
                   cpuid_, kvars, tvars>>

D_DiagNext ==
    /\ pc = "diag_jj" /\ ~(jj < block_size)
    /\ j' = j + 1
    /\ left' = Add32(left, call.n_ints)
    /\ pc' = "diag_j"
    /\ UNCHANGED <<call, before, step, results, cpuid, f, block_size, cutoff, i, jj, ii, curi, right,
                   total, calls, cpuid_, kvars, tvars>>

\* square tiles, loop over the following strips; on exit, the start of the residual
D_SqJ ==
    /\ pc = "sq_j"
    /\ IF FullStrip(j, block_size, call.n_vectors)
       THEN /\ left' = Mul32(curi, call.n_ints)
            /\ ii' = 0
            /\ pc' = "sq_ii"
            /\ UNCHANGED right
       ELSE /\ right' = Mul32(j, call.n_ints)
            /\ pc' = "res_j"
            /\ UNCHANGED <<left, ii>>
    /\ UNCHANGED <<call, before, step, results, cpuid, f, block_size, cutoff, i, j, jj, curi, total,
                   calls, cpuid_, kvars, tvars>>

D_SqII ==
    /\ pc = "sq_ii"
    /\ IF ii < block_size
       THEN /\ right' = Mul32(j, call.n_ints)
            /\ jj' = 0
            /\ pc' = "sq_jj"
            /\ UNCHANGED j
       ELSE /\ j' = Add32(j, block_size)
            /\ pc' = "sq_j"
            /\ UNCHANGED <<right, jj>>
    /\ UNCHANGED <<call, before, step, results, cpuid, f, block_size, cutoff, i, ii, curi, left, total,
                   calls, cpuid_, kvars, tvars>>

D_SqCall ==
    /\ pc = "sq_jj" /\ jj < block_size
    /\ KernelCall("square", left, right, curi + ii, j + jj)
    /\ jj' = jj + 1
    /\ right' = Add32(right, call.n_ints)
    /\ UNCHANGED <<call, before, step, results, cpuid, f, block_size, cutoff, pc, i, j, ii, curi, left,
                   cpuid_, kvars, tvars>>

D_SqNext ==
    /\ pc = "sq_jj" /\ ~(jj < block_size)
    /\ ii' = ii + 1
    /\ left' = Add32(left, call.n_ints)
    /\ pc' = "sq_ii"
    /\ UNCHANGED <<call, before, step, results, cpuid, f, block_size, cutoff, i, j, jj, curi, right,
                   total, calls, cpuid_, kvars, tvars>>

\* right residual, loop over the vectors past the last full strip; on exit,
\* the increment of the strip loop
D_ResJ ==
    /\ pc = "res_j"
    /\ IF j < call.n_vectors
       THEN /\ left' = Mul32(curi, call.n_ints)
            /\ jj' = 0
            /\ pc' = "res_jj"
            /\ UNCHANGED i
       ELSE /\ i' = Add32(i, block_size)
            /\ pc' = "outer"
            /\ UNCHANGED <<left, jj>>
    /\ UNCHANGED <<call, before, step, results, cpuid, f, block_size, cutoff, j, ii, curi, right, total,
                   calls, cpuid_, kvars, tvars>>

\* a residual that indexes the side-table in loop order: j, then curi + jj
D_ResCallSwapped ==
    /\ pc = "res_jj" /\ jj < block_size
    /\ KernelCall("residual", left, right, j, curi + jj)
    /\ jj' = jj + 1
    /\ left' = Add32(left, call.n_ints)
    /\ UNCHANGED <<call, before, step, results, cpuid, f, block_size, cutoff, pc, i, j, ii, curi, right,
                   cpuid_, kvars, tvars>>

D_ResCall ==
    /\ pc = "res_jj" /\ jj < block_size
    /\ KernelCall("residual", left, right, curi + jj, j)
    /\ jj' = jj + 1
    /\ left' = Add32(left, call.n_ints)
    /\ UNCHANGED <<call, before, step, results, cpuid, f, block_size, cutoff, pc, i, j, ii, curi, right,
                   cpuid_, kvars, tvars>>

D_ResNext ==
    /\ pc = "res_jj" /\ ~(jj < block_size)
    /\ j' = j + 1
    /\ right' = Add32(right, call.n_ints)
    /\ pc' = "res_j"
    /\ UNCHANGED <<call, before, step, results, cpuid, f, block_size, cutoff, i, jj, ii, curi, left,
                   total, calls, cpuid_, kvars, tvars>>

\* residual tail, outer loop over i; on exit, return total
D_TailI ==
    /\ pc = "tail_i"
    /\ IF i < call.n_vectors
       THEN /\ right' = Add32(left, call.n_ints)
            /\ j' = TailFirst(i)
            /\ pc' = "tail_j"
       ELSE /\ pc' = "done"
            /\ UNCHANGED <<right, j>>
    /\ UNCHANGED <<call, before, step, results, cpuid, f, block_size, cutoff, i, jj, ii, curi, left,
                   total, calls, cpuid_, kvars, tvars>>

D_TailCall ==
    /\ pc = "tail_j" /\ j < call.n_vectors
    /\ KernelCall("tail", left, right, i, j)
    /\ j' = j + 1
    /\ right' = Add32(right, call.n_ints)
    /\ UNCHANGED <<call, before, step, results, cpuid, f, block_size, cutoff, pc, i, jj, ii, curi, left,
                   cpuid_, kvars, tvars>>

D_TailNext ==
    /\ pc = "tail_j" /\ ~(j < call.n_vectors)
    /\ i' = i + 1
    /\ left' = Add32(left, call.n_ints)
    /\ pc' = "tail_i"
    /\ UNCHANGED <<call, before, step, results, cpuid, f, block_size, cutoff, j, jj, ii, curi, right,
                   total, calls, cpuid_, kvars, tvars>>

\* the caller takes the value returned and calls the next entry point of its script
D_Return ==
    /\ pc = "done"
    /\ results' = Append(results, total)
    /\ before' = calls
    /\ IF step < Len(call.script)
       THEN /\ step' = step + 1
            /\ pc' = IF call.script[step + 1] \in Cached THEN "detect" ELSE "enter"
            /\ calls' = <<>>
       ELSE /\ pc' = "exit"
            /\ UNCHANGED <<step, calls>>
    /\ UNCHANGED <<call, cpuid, f, block_size, cutoff, i, j, jj, ii, curi, left, right, total,
                   cpuid_, kvars, tvars>>

Next ==
    \/ D_Detect \/ D_Dispatch \/ D_Alignment \/ D_Enter \/ D_Outer
    \/ D_DiagJ \/ D_DiagCall \/ D_DiagNext
    \/ D_SqJ \/ D_SqII \/ D_SqCall \/ D_SqNext
    \/ D_ResJ \/ D_ResCall \/ D_ResNext
    \/ D_TailI \/ D_TailCall \/ D_TailNext
    \/ D_Return

DriverInit == DriverInitFrom(DirectCalls \cup DirectListCalls \cup EntryCalls)

Spec == DriverInit /\ [][Next]_vars

OffsetsInit == DriverInitFrom(HugeCalls \cup OffsetsEntryCalls)

\* the drivers on bundles of 2^32 words and more
SpecOffsets == OffsetsInit /\ [][Next]_vars

(***************************************************************************)
(* c_fwrapper, the naive double loop.                                      *)
(***************************************************************************)
RECURSIVE c_fwrapper_inner(_, _, _, _, _, _, _)
c_fwrapper_inner(n_vectors, mem, n_ints, kf, offset, inner_offset, jx) ==
    IF jx < n_vectors
    THEN Kernel(kf, mem, offset, inner_offset, n_ints)
         + c_fwrapper_inner(n_vectors, mem, n_ints, kf, offset, Add32(inner_offset, n_ints), jx + 1)
    ELSE 0

RECURSIVE c_fwrapper_outer(_, _, _, _, _, _)
c_fwrapper_outer(n_vectors, mem, n_ints, kf, offset, ix) ==
    IF ix < n_vectors
    THEN c_fwrapper_inner(n_vectors, mem, n_ints, kf, offset, Add32(offset, n_ints), ix + 1)
         + c_fwrapper_outer(n_vectors, mem, n_ints, kf, Add32(offset, n_ints), ix + 1)
    ELSE 0

c_fwrapper(n_vectors, mem, n_ints, kf) == c_fwrapper_outer(n_vectors, mem, n_ints, kf, 0, 0)

\* c_flwrapper's offset1 in iteration ix of its outer loop:
\* uint64_t offset1 = 0; ... ++i, offset1 += n_ints
RECURSIVE c_flwrapper_offset1(_, _)
c_flwrapper_offset1(n_ints, ix) ==
    IF ix = 0 THEN Wide(0) ELSE WideAdd(c_flwrapper_offset1(n_ints, ix - 1), Wide(n_ints))

\* c_flwrapper's offset2 at the call for the pair (ix, jx), ix < jx:
\* offset2 = offset1 + n_ints; ... ++j, offset2 += n_ints
RECURSIVE c_flwrapper_offset2(_, _, _)
c_flwrapper_offset2(n_ints, ix, jx) ==
    IF jx = ix + 1
    THEN WideAdd(c_flwrapper_offset1(n_ints, ix), Wide(n_ints))
    ELSE WideAdd(c_flwrapper_offset2(n_ints, ix, jx - 1), Wide(n_ints))

(***************************************************************************)
(* Threads racing through the prologue of the entry points.                *)
(***************************************************************************)
Threads == 1..MaxThreads

\* words per vector of the calls the racing threads make
ThreadWidth == 128

CacheSpecInit ==
    /\ hw \in HwDriver
    /\ tentry \in [Threads -> EntryPoints]
    /\ tpc = [t \in Threads |-> "read"]
    /\ tcpuid = [t \in Threads |-> -1]
    /\ tkernel = [t \in Threads |-> "none"]
    /\ tfrom = [t \in Threads |-> "none"]
    /\ CacheInit
    /\ KernelOff /\ DriverOff

\* int cpuid = cpuid_; a plain load of one aligned machine word, which
\* yields the word as it is in memory at that moment
T_Read(t) ==
    /\ tpc[t] = "read"
    /\ tcpuid' = [tcpuid EXCEPT ![t] = cpuid_[tentry[t]]]
    /\ tfrom' = [tfrom EXCEPT ![t] = "published"]
    /\ tpc' = [tpc EXCEPT ![t] = IF NeedsDetect(cpuid_[tentry[t]]) THEN "compute" ELSE "dispatch"]
    /\ UNCHANGED <<hw, tentry, tkernel, cpuid_, kvars, dvars>>

\* cpuid = get_cpuid()
T_Compute(t) ==
    /\ tpc[t] = "compute"
    /\ tcpuid' = [tcpuid EXCEPT ![t] = get_cpuid(hw)]
    /\ tfrom' = [tfrom EXCEPT ![t] = "computed"]
    /\ tpc' = [tpc EXCEPT ![t] = "cas"]
    /\ UNCHANGED <<hw, tentry, tkernel, cpuid_, kvars, dvars>>

\* __sync_val_compare_and_swap(&cpuid_, -1, cpuid)
T_Cas(t) ==
    /\ tpc[t] = "cas"
    /\ cpuid_' = [cpuid_ EXCEPT ![tentry[t]] = CompareAndSwap(@, -1, tcpuid[t])]
    /\ tpc' = [tpc EXCEPT ![t] = "dispatch"]
    /\ UNCHANGED <<hw, tentry, tcpuid, tkernel, tfrom, kvars, dvars>>

\* the if-chain on the local cpuid
T_Dispatch(t) ==
    /\ tpc[t] = "dispatch"
    /\ tkernel' = [tkernel EXCEPT ![t] =
                      IF tentry[t] = "intersect" THEN SelectKernel(tcpuid[t], ThreadWidth)
                      ELSE SelectKernelList(tcpuid[t], ThreadWidth)]
    /\ tpc' = [tpc EXCEPT ![t] = "driver"]
    /\ UNCHANGED <<hw, tentry, tcpuid, tfrom, cpuid_, kvars, dvars>>

CacheNext == \E t \in Threads : T_Read(t) \/ T_Compute(t) \/ T_Cas(t) \/ T_Dispatch(t)

SpecCache == CacheSpecInit /\ [][CacheNext]_vars

(***************************************************************************)
(* Properties.                                                             *)
(***************************************************************************)
\* the sum over all pairs a < b < N of popcount(V_a AND V_b)
RECURSIVE TruePairSum(_, _, _, _, _)
TruePairSum(kind, N, W, a, b) ==
    IF a >= N THEN 0
    ELSE IF b >= N THEN TruePairSum(kind, N, W, a + 1, a + 2)
    ELSE Cardinality(VecBits(kind, a, W) \cap VecBits(kind, b, W))
         + TruePairSum(kind, N, W, a, b + 1)

\* bit k of a feature mask
HasBit(mask, k) == (mask \div 2^k) % 2 = 1

\* the regions the driver's calls came from
Regions == {calls[k].region : k \in DOMAIN calls}

\* C1: intersect(V, N, W) returns the sum over all pairs i < j < N of
\* popcount(V_i AND V_j), whatever the feature mask, N and W.
C1_IntersectIsPairSum ==
    (pc = "done" /\ Running = "intersect")
        => total = TruePairSum(call.kind, call.n_vectors, call.n_ints, 0, 1)

\* C2: each SIMD kernel returns what intersect_bitmaps_scalar returns on
\* the same inputs, for every word count.
C2_SimdEqualsScalar ==
    (kpc = "done" /\ IsSimd(karg.f))
        => kcount = intersect_bitmaps_scalar(KMem, 0, karg.n_ints, karg.n_ints)

C4_BlockedEqualsNaive ==
    (pc = "done" /\ Running \in {"intersect", "c_fwrapper_blocked"})
        => total = c_fwrapper(call.n_vectors, Vals, call.n_ints, f)

C4_Witness ==
    /\ pc = "done" /\ Running = "c_fwrapper_blocked"
    /\ call.n_vectors = 5 /\ call.block_size = 2
    /\ Regions = {"diagonal", "square", "residual"}
    /\ total > 0

\* C5: with an exact side-table, intersect_list returns what intersect
\* returns on the same data, for every cutoff.
C5_SparseEqualsDense ==
    (pc = "exit" /\ call.script = <<"intersect_list", "intersect">>)
        => results[1] = results[2]

\* C6: intersect_list sends the pair (a, b) to the sparse kernel iff
\* popcount[a] < cutoff or popcount[b] < cutoff, cutoff being the caller's.
C6_SparseIffBelowCutoff ==
    (Running = "intersect_list" /\ call.n_ints > 0)
        => \A k \in DOMAIN calls :
             (calls[k].kernel = "sparse")
                <=> \/ call.side.n_alts[calls[k].left \div call.n_ints] < call.cutoff
                    \/ call.side.n_alts[calls[k].right \div call.n_ints] < call.cutoff

\* C7: on exact position lists the sparse kernel returns popcount(A AND B),
\* also when positions are 64 or larger.
C7_SparseKernelExact ==
    (kpc = "done" /\ karg.f = "scalar_list") => kcount = KExpected

\* C8: each cpuid_ holds -1 or the value of get_cpuid; once it holds that
\* value it never changes; every thread dispatches on that value.
C8_CacheInv ==
    /\ \A e \in EntryPoints : cpuid_[e] \in {-1, get_cpuid(hw)}
    /\ \A t \in DOMAIN tpc : tpc[t] \in {"dispatch", "driver"} => tcpuid[t] = get_cpuid(hw)
    /\ \A t, u \in DOMAIN tpc :
            (tpc[t] = "driver" /\ tpc[u] = "driver") => tkernel[t] = tkernel[u]

C8_CacheStable == \A e \in EntryPoints : cpuid_[e] # -1 => cpuid_'[e] = cpuid_[e]

C8_CacheOnce == []C8_CacheInv /\ [][C8_CacheStable]_vars

\* two threads computed the mask of the same entry point themselves, a third
\* read the published one
C8_Witness ==
    \E t, u, v \in DOMAIN tpc :
        /\ tentry[t] = tentry[u] /\ tentry[u] = tentry[v]
        /\ tfrom[t] = "computed" /\ tfrom[u] = "computed" /\ t # u
        /\ tfrom[v] = "published"
        /\ tpc[t] = "driver" /\ tpc[u] = "driver" /\ tpc[v] = "driver"

\* C9: both entry points select the 512-bit kernel iff AVX512BW (bit 30) is
\* flagged and W >= 128, else the 256-bit kernel iff AVX2 (bit 5) is flagged
\* and W >= 64, else the 128-bit kernel iff SSE4.1 (bit 19) is flagged and
\* W >= 32, else the scalar kernel.
C9_DispatchRule ==
    (IsEntryPoint(Running) /\ pc \notin {"off", "detect", "dispatch"})
        => /\ f = IF HasBit(cpuid, 30) /\ call.n_ints >= 128 THEN "avx512"
                  ELSE IF HasBit(cpuid, 5) /\ call.n_ints >= 64 THEN "avx2"
                  ELSE IF HasBit(cpuid, 19) /\ call.n_ints >= 32 THEN "sse4"
                  ELSE "scalar"
           /\ LaneWidth(f) > 64 => call.n_ints >= 16 * (LaneWidth(f) \div 64)
           /\ f = "avx512" => HasBit(cpuid, 30)
           /\ f = "avx2" => HasBit(cpuid, 5)
           /\ f = "sse4" => HasBit(cpuid, 19)

\* AVX512BW is flagged but the vectors are too short for the 512-bit kernel
C9_Witness ==
    /\ pc = "done" /\ Running = "intersect_list"
    /\ HasBit(cpuid, 30) /\ call.n_ints = 127 /\ f = "avx2"

\* C10: with fewer than two vectors the entry points and the blocked drivers
\* make no kernel call and return 0, for every W >= 1 and every block size.
C10_NoPairs ==
    (pc # "off" /\ Running # "get_alignment" /\ call.n_vectors < 2)
        => /\ calls = <<>>
           /\ pc = "done" => total = 0
           /\ \A k \in DOMAIN results : call.script[k] # "get_alignment" => results[k] = 0

C10_Witness ==
    /\ pc = "exit" /\ call.script = <<"intersect_list", "intersect">>
    /\ call.n_vectors = 1 /\ call.n_ints = 32001 /\ block_size = 3
    /\ Len(results) = 2

\* C11: when intersect() is called with words_per_vector = 0 and more than one
\* vector, the conversion of FIC_DEFAULT_BLOCK/(W*8) has one outcome (the
\* block size is defined), every kernel call is made with n_ints = 0 and
\* returns 0, and intersect() returns 0.
C11_ZeroWidth ==
    (Running = "intersect" /\ call.n_ints = 0 /\ call.n_vectors > 1
     /\ pc \notin {"off", "detect", "dispatch"})
        => /\ pc = "enter" => \A b \in BlockSizes(call.n_ints) : block_size = b
           /\ \A k \in DOMAIN calls :
                /\ calls[k].kernel = "dense"
                /\ Kernel(f, Vals, calls[k].left, calls[k].right, call.n_ints) = 0
           /\ pc = "done" => total = 0

\* C12: for every feature mask get_alignment() returns 64 if AVX512BW is
\* flagged, else 32 if AVX2 is flagged, else 16 if SSE4.1 is flagged, else 8,
\* and that is at least the lane width in bytes of the kernel intersect()
\* selects on the same machine, for every W.
C12_Alignment ==
    (call.script = <<"get_alignment", "intersect">> /\ Len(results) >= 1)
        => /\ results[1] \in {8, 16, 32, 64}
           /\ cpuid # -1 =>
                results[1] = IF HasBit(cpuid, 30) THEN 64
                             ELSE IF HasBit(cpuid, 5) THEN 32
                             ELSE IF HasBit(cpuid, 19) THEN 16
                             ELSE 8
           /\ (Running = "intersect" /\ pc \notin {"detect", "dispatch"})
                => results[1] * 8 >= LaneWidth(f)

\* SSE4.1, AVX2 and AVX512BW are all flagged and the 512-bit kernel is selected
C12_Witness ==
    /\ call.script = <<"get_alignment", "intersect">> /\ pc = "exit"
    /\ HasBit(cpuid, 19) /\ HasBit(cpuid, 5) /\ HasBit(cpuid, 30)
    /\ call.n_ints = 128 /\ f = "avx512" /\ results[1] = 64

\* C13: for every combination of CPUID and XCR0 bits, with OSXSAVE clear the
\* feature mask carries neither AVX2 nor AVX512BW and no 256-bit or 512-bit
\* kernel is selected; AVX2 is flagged only if XCR0 enables the XMM and YMM
\* state, AVX512BW only if it also enables the opmask, ZMM-hi256 and
\* hi16-ZMM state.
C13_XsaveGates ==
    (pc # "off" /\ cpuid # -1)
        => /\ ~HasBit(call.hw.ecx1, 27) => (~HasBit(cpuid, 5) /\ ~HasBit(cpuid, 30))
           /\ (~HasBit(call.hw.ecx1, 27) /\ IsEntryPoint(Running)
               /\ pc \notin {"detect", "dispatch"}) => f \notin {"avx2", "avx512"}
           /\ HasBit(cpuid, 5) => (HasBit(call.hw.xcr0, 1) /\ HasBit(call.hw.xcr0, 2))
           /\ HasBit(cpuid, 30) => \A k \in {1, 2, 5, 6, 7} : HasBit(call.hw.xcr0, k)

\* the CPU reports AVX2 and AVX512BW and XCR0 enables every state, but
\* OSXSAVE is clear: intersect() has selected the scalar kernel for W = 128
C13_Witness ==
    /\ pc = "exit" /\ call.script = <<"get_alignment", "intersect">>
    /\ ~HasBit(call.hw.ecx1, 27) /\ HasBit(call.hw.ecx1, 19)
    /\ HasBit(call.hw.ebx7, 5) /\ HasBit(call.hw.ebx7, 30)
    /\ \A k \in {1, 2, 5, 6, 7} : HasBit(call.hw.xcr0, k)
    /\ call.n_ints = 128 /\ cpuid = 0 /\ f = "scalar"

\* the kernel under test is in its 16-block loop
InCsaLoop == kpc = "csa_loop" /\ IsSimd(karg.f)

\* the sum of the lanes of cnt
CntSum ==
    IF LaneWidth(karg.f) = 128 THEN kst.cnt
    ELSE SumTo(kst.cnt, Lanes(LaneWidth(karg.f)))

\* the sum of popcount(a_k AND b_k) over the blocks k < n
BlocksSum(n) ==
    SumTo([k \in 0..(n - 1) |->
              Cardinality(AndReg(KMem, 0, karg.n_ints, k, LaneWidth(karg.f)))], n)

\* the registers before line k of the round that starts at block ki
RECURSIVE HSBefore(_)
HSBefore(k) ==
    IF k = 1 THEN HSRegs(kst)
    ELSE HSLine(LaneWidth(karg.f), HSBefore(k - 1), KMem, 0, karg.n_ints, ki, HSLines[k - 1])

\* the three inputs of the CSA of line ln on registers r
CsaInputs(r, ln) ==
    IF ln[1] = "data"
    THEN <<r[ln[4]], AndReg(KMem, 0, karg.n_ints, ki + ln[5], LaneWidth(karg.f)),
           AndReg(KMem, 0, karg.n_ints, ki + ln[6], LaneWidth(karg.f))>>
    ELSE <<r[ln[4]], r[ln[5]], r[ln[6]]>>

\* TRUE when some bit of the three inputs shows the combination x, y, z
SeesCombination(in, L, x, y, z) ==
    \E b \in 0..(L - 1) : (b \in in[1]) = x /\ (b \in in[2]) = y /\ (b \in in[3]) = z

\* C14: in each Harley-Seal kernel, after every iteration of the 16-block
\* loop 16*cnt + 8*popcount(eights) + 4*popcount(fours) + 2*popcount(twos)
\* + popcount(ones) is the sum of popcount(a_k AND b_k) over the blocks
\* consumed so far; every CSA step of the next iteration keeps
\* 2*popcount(h) + popcount(l) = popcount(a) + popcount(b) + popcount(c); and
\* the ternary-logic CSA of the 512-bit kernel gives the h and l of the
\* bitwise form.
C14_HarleySeal ==
    InCsaLoop =>
        /\ 16 * CntSum + 8 * Cardinality(kst.eights) + 4 * Cardinality(kst.fours)
             + 2 * Cardinality(kst.twos) + Cardinality(kst.ones) = BlocksSum(ki)
        /\ ki < KLimit =>
             \A k \in 1..Len(HSLines) :
                LET r == HSBefore(k)
                    in == CsaInputs(r, HSLines[k])
                    out == CSA(LaneWidth(karg.f), in[1], in[2], in[3])
                IN  /\ 2 * Cardinality(out.h) + Cardinality(out.l)
                         = Cardinality(in[1]) + Cardinality(in[2]) + Cardinality(in[3])
                    /\ out = CSA256(in[1], in[2], in[3])

\* the 512-bit kernel between its first and second iteration, with a count
\* and carries in ones, twos and fours; the CSAs of the second iteration see
\* all eight combinations of input bits
C14_Witness ==
    /\ InCsaLoop /\ karg.f = "avx512" /\ ki = 16 /\ ki < KLimit
    /\ kst.ones # {} /\ kst.twos # {} /\ kst.fours # {}
    /\ CntSum > 0
    /\ \A x \in BOOLEAN, y \in BOOLEAN, z \in BOOLEAN :
        \E k \in 1..Len(HSLines) :
            SeesCombination(CsaInputs(HSBefore(k), HSLines[k]), 512, x, y, z)

Probing ==
    /\ karg.f = "scalar_list"
    /\ \/ kpc = "list1" /\ ki < Cardinality(karg.A)
       \/ kpc = "list2" /\ ki < Cardinality(karg.B)

\* the position it probes next
ProbedPos == IF kpc = "list1" THEN KPos[ki] ELSE KPos[Cardinality(karg.A) + ki]

\* the first word of the bitmap it probes: b2 when it walks l1, b1 otherwise
ProbedBitmap == IF kpc = "list1" THEN karg.n_ints ELSE 0

\* C16: for every position p of the list it walks, the sparse kernel shifts
\* the mask by p & 63, an amount in 0..63 also for p >= 64, and so tests
\* bit p mod 64 of word floor(p/64) of the other bitmap.
C16_ShiftAmount ==
    Probing
        => /\ MOD(ProbedPos) = ProbedPos % 64
           /\ MOD(ProbedPos) \in 0..63
           /\ ListProbe(KMem, ProbedBitmap, ProbedPos, karg.ub)
                = IF ProbedPos % 64 \in KMem[ProbedBitmap + (ProbedPos \div 64)] THEN 1 ELSE 0

\* C17: the sparse kernel walks the position list of the operand with fewer
\* set bits and probes the other operand's bitmap; on a tie (n1 = n2) it
\* walks the first operand's list and probes the second operand's bitmap.
C17_WalksShorterList ==
    Probing
        => LET n1 == Cardinality(karg.A)
               n2 == Cardinality(karg.B)
           IN  /\ n1 < n2 => (kpc = "list1" /\ ProbedBitmap = karg.n_ints)
               /\ n2 < n1 => (kpc = "list2" /\ ProbedBitmap = 0)
               /\ n1 = n2 => (kpc = "list1" /\ ProbedBitmap = karg.n_ints)

\* the byte address of word p of a bundle that starts at byte address base
ByteAddress(base, p) == base + (WordBits \div 8) * p

\* bundle addresses that are multiples of what get_alignment() returns here
AlignedBases == {m * get_alignment(cpuid) : m \in 0..2}

\* C18: when the bundle starts at an address aligned to get_alignment(),
\* both pointers of every dense kernel call the blocked driver makes are
\* aligned to L/8 bytes, L being the lane width of the kernel selected, for
\* every vector and every W, also when W is not a multiple of L/64.
C18_PointersAligned ==
    (IsEntryPoint(Running) /\ pc \notin {"detect", "dispatch"})
        => \A k \in DOMAIN calls, base \in AlignedBases :
             calls[k].kernel = "dense"
                => /\ ByteAddress(base, calls[k].left) % (LaneWidth(f) \div 8) = 0
                   /\ ByteAddress(base, calls[k].right) % (LaneWidth(f) \div 8) = 0

\* the 64 bits of v * W, the word at which vector v of the bundle starts
TrueOffset(v) == WideMul(Wide(call.n_ints), v)

\* C19: in every kernel call c_fwrapper_blocked and c_flwrapper_blocked make,
\* the 32-bit offsets left and right equal the true offsets a*W and b*W of the
\* two vectors of the pair the loops are at, on every bundle, those of 2^32
\* words and more included; the 64-bit offsets of c_flwrapper equal them too.
C19_OffsetsTrue ==
    (Running \in {"c_fwrapper_blocked", "c_flwrapper_blocked"})
        => /\ \A k \in DOMAIN calls :
                /\ Wide(calls[k].left) = TrueOffset(calls[k].a)
                /\ Wide(calls[k].right) = TrueOffset(calls[k].b)
           /\ \A a, b \in 0..(call.n_vectors - 1) :
                a < b => /\ c_flwrapper_offset1(call.n_ints, a) = TrueOffset(a)
                         /\ c_flwrapper_offset2(call.n_ints, a, b) = TrueOffset(b)

====
